---------------------------- MODULE Spec2Model ----------------------------
(***************************************************************************)
(* A model of qutebrowser's test helpers (tests/helpers/testutils.py) and  *)
(* of its cx_Freeze packaging script (scripts/freeze.py).                   *)
(*                                                                         *)
(* Python values are records [t, n, s, c]:                                 *)
(*   t  the name of type(value)                                            *)
(*   n  the number of an int, or of a float in units of 10^-6              *)
(*   s  the characters of a str, or the keys of a dict in insertion order  *)
(*   c  the items of a list, or the values of a dict (parallel to s)       *)
(***************************************************************************)
EXTENDS Integers, Sequences, FiniteSets, TLC

VARIABLES
    val1, val2, ON_CI, outcome, cstate,        \* partial_compare
    pattern, value, matched,                   \* pattern_match
    \* scripts/freeze.py: where the script is, whether __file__ is defined,
    \* BASEDIR, sys.platform, platform.architecture()[0], include_files,
    \* whether qutebrowser/git-commit-id exists, the exception on its way
    \* out, and whether the finally block has run
    fpc, has_file, BASEDIR, sys_platform, bits, include_files, git_file,
    raised, cleaned,
    \* qt_module_skip: the attributes of qutebrowser.qt, the arguments and
    \* how the call ended
    qt, modname, reason, skip_end,
    \* change_cwd: the working directory, the old_cwd of every with-block
    \* that is open (innermost first), the directory each was entered from,
    \* whether an exception is on its way out, and the block just left
    cwd, frames, entered_from, raising, left

compareVars == <<val1, val2, ON_CI, outcome, cstate>>
patternVars == <<pattern, value, matched>>
freezeVars == <<fpc, has_file, BASEDIR, sys_platform, bits, include_files,
                git_file, raised, cleaned>>
skipVars == <<qt, modname, reason, skip_end>>
cwdVars == <<cwd, frames, entered_from, raising, left>>

vars == <<compareVars, patternVars, freezeVars, skipVars, cwdVars>>

\* ------------------------------------------------------------------ bounds
\* Nodes (containers and scalars) of one compared value.
MaxNodes == 3
\* Nodes of the actual and the expected value together.
MaxTotal == 6
\* Characters of pattern and value together.
MaxChars == 6

\* ------------------------------------------------------------ Python values
Ellipsis == [t |-> "ellipsis", n |-> 0, s |-> <<>>, c |-> <<>>]
PyInt(i) == [t |-> "int", n |-> i, s |-> <<>>, c |-> <<>>]
PyFloat(u) == [t |-> "float", n |-> u, s |-> <<>>, c |-> <<>>]
PyStr(chars) == [t |-> "str", n |-> 0, s |-> chars, c |-> <<>>]
PyList(items) == [t |-> "list", n |-> 0, s |-> <<>>, c |-> items]
PyDict(keys, vals) == [t |-> "dict", n |-> 0, s |-> keys, c |-> vals]

\* The error of an outcome without a mismatch (Python's None); a mismatch
\* description is a non-empty tuple of strings.
None == <<>>

Range(f) == {f[i] : i \in DOMAIN f}
Abs(i) == IF i < 0 THEN -i ELSE i

\* ------------------------------------------------------------ pattern_match
\* The characters the strings of the model are made of: the wildcard, a
\* line break, three characters special in regular expressions or fnmatch,
\* and an ordinary one.
Alphabet == {"*", "\n", "?", "[", ".", "a"}

\* The characters re.escape() puts a backslash before.
SpecialChars ==
    {"(", ")", "[", "]", "{", "}", "?", "*", "+", "-", "|", "^", "$",
     "\\", ".", "&", "~", "#", " ", "\t", "\n", "\r", "\f"}

\* str.split(sep): the pieces between the occurrences of sep, in order.
RECURSIVE split(_, _)
split(str, sep) ==
    IF \A i \in DOMAIN str : str[i] # sep
    THEN <<str>>
    ELSE LET i == CHOOSE k \in DOMAIN str :
                      str[k] = sep /\ \A j \in 1..(k - 1) : str[j] # sep
         IN  <<SubSeq(str, 1, i - 1)>> \o split(SubSeq(str, i + 1, Len(str)), sep)

\* re.escape(part): a backslash before every special character.
RECURSIVE re_escape(_)
re_escape(part) ==
    IF part = <<>> THEN <<>>
    ELSE (IF Head(part) \in SpecialChars
          THEN <<"\\", Head(part)>> ELSE <<Head(part)>>) \o re_escape(Tail(part))

\* sep.join(parts)
RECURSIVE join(_, _)
join(sep, parts) ==
    IF parts = <<>> THEN <<>>
    ELSE IF Len(parts) = 1 THEN parts[1]
    ELSE parts[1] \o sep \o join(sep, Tail(parts))

\* re.fullmatch(regex, str, flags): the whole of str matches regex. The
\* syntax read is the one escaping and joining can produce, as the regex
\* engine reads it: a backslash makes the next character literal, '.' is
\* any character (a line break only with DOTALL), '*' after an atom repeats
\* it; any other character stands for itself.
RECURSIVE re_fullmatch(_, _, _)
re_fullmatch(regex, str, dotall) ==
    IF regex = <<>> THEN str = <<>>
    ELSE
      LET escaped == Head(regex) = "\\" /\ Len(regex) >= 2
          width   == IF escaped THEN 2 ELSE 1
          lit     == IF escaped THEN regex[2] ELSE Head(regex)
          anychar == ~escaped /\ Head(regex) = "."
          rest    == SubSeq(regex, width + 1, Len(regex))
          starred == rest # <<>> /\ Head(rest) = "*"
          Accepts(ch) == IF anychar THEN (dotall \/ ch # "\n") ELSE ch = lit
      IN  IF starred
          THEN \/ re_fullmatch(Tail(rest), str, dotall)
               \/ /\ str # <<>>
                  /\ Accepts(Head(str))
                  /\ re_fullmatch(regex, Tail(str), dotall)
          ELSE /\ str # <<>>
               /\ Accepts(Head(str))
               /\ re_fullmatch(rest, Tail(str), dotall)

\* The regular expression pattern_match builds from its pattern.
re_pattern(pat) ==
    LET parts == split(pat, "*")
    IN  join(<<".", "*">>, [i \in DOMAIN parts |-> re_escape(parts[i])])

\* A faulty variant: the pattern is handed to the regex engine as it is, with only
\* its wildcards rewritten.
pattern_match_unescaped(pat, str) ==
    re_fullmatch(join(<<".", "*">>, split(pat, "*")), str, TRUE)

\* pattern_match(pattern=pat, value=str)
pattern_match(pat, str) == re_fullmatch(re_pattern(pat), str, TRUE)

\* Strings of exactly k characters.
StringsOfLen(k) == [1..k -> Alphabet]

\* The parts of the state a specification does not use stay as they are here.
InitFreezeIdle ==
    /\ fpc = "idle"
    /\ has_file = TRUE
    /\ BASEDIR = "None"
    /\ sys_platform = "linux"
    /\ bits = "64bit"
    /\ include_files = <<>>
    /\ git_file = FALSE
    /\ raised = "None"
    /\ cleaned = FALSE

InitSkipIdle ==
    /\ qt = <<>>
    /\ modname = ""
    /\ reason = None
    /\ skip_end = [how |-> "idle", with |-> <<>>]

InitCwdIdle ==
    /\ cwd = <<>>
    /\ frames = <<>>
    /\ entered_from = <<>>
    /\ raising = FALSE
    /\ left = [how |-> "idle", was |-> <<>>]

InitCompareIdle ==
    /\ val1 = Ellipsis
    /\ val2 = Ellipsis
    /\ ON_CI = FALSE
    /\ outcome = [error |-> None, calls |-> <<>>, out |-> <<>>]
    /\ cstate = "idle"

InitPattern ==
    /\ \E i \in 0..MaxChars : \E j \in 0..(MaxChars - i) :
          /\ pattern \in StringsOfLen(i)
          /\ value \in StringsOfLen(j)
    /\ matched = "unset"
    /\ InitCompareIdle /\ InitFreezeIdle /\ InitSkipIdle /\ InitCwdIdle

\* A test calls pattern_match(pattern=pattern, value=value).
PatternMatch ==
    /\ matched = "unset"
    /\ matched' = IF pattern_match(pattern, value) THEN "True" ELSE "False"
    /\ UNCHANGED <<pattern, value, compareVars, freezeVars, skipVars, cwdVars>>

NextPattern == PatternMatch

SpecPattern == InitPattern /\ [][NextPattern]_vars

\* What the docstring promises of a pattern in which only '*' is active:
\* '*' stands for any run of characters, every other character for itself.
RECURSIVE GlobMatches(_, _)
GlobMatches(pat, str) ==
    IF pat = <<>> THEN str = <<>>
    ELSE IF Head(pat) = "*"
    THEN \/ GlobMatches(Tail(pat), str)
         \/ str # <<>> /\ GlobMatches(pat, Tail(str))
    ELSE /\ str # <<>>
         /\ Head(str) = Head(pat)
         /\ GlobMatches(Tail(pat), Tail(str))

\* C5: pattern_match(pattern, value) is True exactly when value is the
\* pattern with some run of characters (possibly empty, possibly holding
\* line breaks) put for each '*', every other character matching only
\* itself; without a '*' that is value = pattern.
C5_PatternMatchIsGlob ==
    matched # "unset" =>
        /\ (matched = "True") <=> GlobMatches(pattern, value)
        /\ ("*" \notin Range(pattern)) => ((matched = "True") <=> (value = pattern))

\* A pattern with a wildcard and a regex-special literal matched a value
\* holding a line break.
C5_Witness ==
    /\ matched = "True"
    /\ "*" \in Range(pattern)
    /\ Range(pattern) \cap {"?", "[", "."} # {}
    /\ "\n" \in Range(value)
    /\ Len(value) > Len(pattern)

\* ---------------------------------------------------------- partial_compare
\* PartialCompareOutcome(error): besides the error, the model keeps what the
\* comparison did on the way: calls, the partial_compare calls made, in
\* order (each by the place in the compared values it was made on), and
\* out, the lines printed (the pprint.pformat dumps of the values are left
\* out).
PartialCompareOutcome(err, calls, out) ==
    [error |-> err, calls |-> calls, out |-> out]

\* A faulty variant: an outcome is true whatever it holds.
Truthy_always(o) == TRUE

\* PartialCompareOutcome.__bool__
Truthy(o) == o.error = None

\* PartialCompareOutcome.__str__
OutcomeStr(o) == IF o.error = None THEN "true" ELSE "false"

\* repr() of a scalar, as a tuple of strings.
Repr(v) ==
    CASE v.t = "int" -> <<ToString(v.n)>>
      [] v.t = "float" -> <<ToString(v.n), "e-6">>
      [] v.t = "str" -> <<"'">> \o v.s \o <<"'">>
      [] OTHER -> <<v.t>>

\* print_i(text, indent, error): one printed line.
print_i(text, indent, error) ==
    IF error THEN <<"| ******">> \o text \o <<"******">> ELSE text

\* gha_group_begin(name); its assertion fails off CI.
gha_group_begin(name) ==
    IF ON_CI THEN <<"::group::", name>> ELSE <<"AssertionError">>

\* gha_group_end(); its assertion fails off CI.
gha_group_end ==
    IF ON_CI THEN <<"::endgroup::">> ELSE <<"AssertionError">>

\* actual == pytest.approx(expected): within a relative tolerance of 10^-6
\* (the absolute tolerance of 10^-12 is below the unit of the model).
Approx(a, e) ==
    Abs(a - e) * 1000000 <= (IF Abs(e) > 1 THEN Abs(e) ELSE 1)

\* dict[key]
GetItem(d, key) == d.c[CHOOSE i \in DOMAIN d.s : d.s[i] = key]

Min(a, b) == IF a < b THEN a ELSE b

\* _partial_compare_float
partial_compare_float(v1, v2, indent) ==
    IF Approx(v1.n, v2.n)
    THEN PartialCompareOutcome(None, <<>>, <<>>)
    ELSE PartialCompareOutcome(
             Repr(v1) \o <<"!=">> \o Repr(v2) \o <<"(float comparison)">>,
             <<>>, <<>>)

\* _partial_compare_str
partial_compare_str(v1, v2, indent) ==
    IF pattern_match(v2.s, v1.s)
    THEN PartialCompareOutcome(None, <<>>, <<>>)
    ELSE PartialCompareOutcome(
             Repr(v1) \o <<"!=">> \o Repr(v2) \o <<"(pattern matching)">>,
             <<>>, <<>>)

\* _partial_compare_eq
partial_compare_eq(v1, v2, indent) ==
    IF v1 = v2
    THEN PartialCompareOutcome(None, <<>>, <<>>)
    ELSE PartialCompareOutcome(Repr(v1) \o <<"!=">> \o Repr(v2), <<>>, <<>>)

\* A faulty variant: the sentinel is not recognised.
IsEllipsis_never(v) == FALSE

\* val2 is Ellipsis
IsEllipsis(v) == v.t = "ellipsis"

\* A faulty variant: the types are not compared.
TypesDiffer_unchecked(v1, v2) == FALSE

\* type(val1) != type(val2)
TypesDiffer(v1, v2) == v1.t # v2.t

RECURSIVE partial_compare(_, _, _, _)
RECURSIVE dict_loop(_, _, _, _, _)
RECURSIVE list_loop(_, _, _, _, _)

\* The loop of _partial_compare_dict from the i-th key of val2 on.
dict_loop(v1, v2, indent, path, i) ==
    IF i > Len(v2.s) THEN PartialCompareOutcome(None, <<>>, <<>>)
    ELSE
      LET key == v2.s[i] IN
      IF key \notin Range(v1.s)
      THEN LET err == <<"Key", key, "is in second dict but not in first!">>
           IN  PartialCompareOutcome(err, <<>>, <<print_i(err, indent, TRUE)>>)
      ELSE
        LET o == partial_compare(GetItem(v1, key), v2.c[i], indent + 1,
                                 Append(path, key))
        IN  IF ~Truthy(o) THEN o
            ELSE LET rest == dict_loop(v1, v2, indent, path, i + 1)
                 IN  PartialCompareOutcome(rest.error, o.calls \o rest.calls,
                                           o.out \o rest.out)

\* A faulty variant: a key of val2 that val1 lacks is passed over.
RECURSIVE dict_loop_lenient(_, _, _, _, _)
dict_loop_lenient(v1, v2, indent, path, i) ==
    IF i > Len(v2.s) THEN PartialCompareOutcome(None, <<>>, <<>>)
    ELSE
      LET key  == v2.s[i]
          rest == dict_loop_lenient(v1, v2, indent, path, i + 1)
      IN
      IF key \notin Range(v1.s) THEN rest
      ELSE
        LET o == partial_compare(GetItem(v1, key), v2.c[i], indent + 1,
                                 Append(path, key))
        IN  IF ~Truthy(o) THEN o
            ELSE PartialCompareOutcome(rest.error, o.calls \o rest.calls,
                                       o.out \o rest.out)

partial_compare_dict_lenient(v1, v2, indent, path) ==
    dict_loop_lenient(v1, v2, indent, path, 1)

\* _partial_compare_dict
partial_compare_dict(v1, v2, indent, path) == dict_loop(v1, v2, indent, path, 1)

\* The loop of _partial_compare_list over zip(val1, val2) from the i-th pair on.
list_loop(v1, v2, indent, path, i) ==
    IF i > Min(Len(v1.c), Len(v2.c)) THEN PartialCompareOutcome(None, <<>>, <<>>)
    ELSE
      LET o == partial_compare(v1.c[i], v2.c[i], indent + 1,
                               Append(path, ToString(i - 1)))
      IN  IF ~Truthy(o) THEN o
          ELSE LET rest == list_loop(v1, v2, indent, path, i + 1)
               IN  PartialCompareOutcome(rest.error, o.calls \o rest.calls,
                                         o.out \o rest.out)

\* A faulty variant: the lengths are not compared, zip() stops at the shorter list.
partial_compare_list_nolen(v1, v2, indent, path) ==
    list_loop(v1, v2, indent, path, 1)

\* _partial_compare_list
partial_compare_list(v1, v2, indent, path) ==
    IF Len(v1.c) < Len(v2.c)
    THEN LET err == <<"Second list is longer than first list">>
         IN  PartialCompareOutcome(err, <<>>, <<print_i(err, indent, TRUE)>>)
    ELSE list_loop(v1, v2, indent, path, 1)

\* partial_compare(val1, val2, indent=indent); path is where in the values
\* given to the outermost call this call compares.
partial_compare(v1, v2, indent, path) ==
    LET call  == path
        begin == IF ON_CI /\ indent = 0
                 THEN <<gha_group_begin("Comparison")>> ELSE <<>>
        head  == begin \o <<print_i(<<"Comparing">>, indent, FALSE),
                            print_i(<<"|---- to ----">>, indent, FALSE)>>
    IN
    IF IsEllipsis(v2)
    THEN PartialCompareOutcome(None, <<call>>,
             head \o <<print_i(<<"Ignoring ellipsis comparison">>, indent, TRUE)>>)
    ELSE IF TypesDiffer(v1, v2)
    THEN LET err == <<"Different types", v1.t, v2.t>>
         IN  PartialCompareOutcome(err, <<call>>,
                                   head \o <<print_i(err, indent, TRUE)>>)
    ELSE
      LET typ == IF v2.t \in {"dict", "list", "float", "str"} THEN v2.t ELSE "=="
          o == CASE typ = "dict" -> partial_compare_dict(v1, v2, indent, path)
                 [] typ = "list" -> partial_compare_list(v1, v2, indent, path)
                 [] typ = "float" -> partial_compare_float(v1, v2, indent)
                 [] typ = "str" -> partial_compare_str(v1, v2, indent)
                 [] OTHER -> partial_compare_eq(v1, v2, indent)
          end == IF ON_CI /\ indent = 0 THEN <<gha_group_end>> ELSE <<>>
      IN  PartialCompareOutcome(o.error, <<call>> \o o.calls,
              head \o <<print_i(<<"|======= Comparing", typ>>, indent, FALSE)>>
                   \o o.out
                   \o <<print_i(<<"--->", OutcomeStr(o)>>, indent, FALSE)>>
                   \o end)

\* ------------------------------------------------- the values compared
\* The scalars of the model: the ignore sentinel, two ints, the str "1", a
\* str that is a wildcard when it is the expected one, and the float 1.0.
Leaves ==
    {Ellipsis, PyInt(1), PyInt(2), PyStr(<<"1">>), PyStr(<<"*">>), PyFloat(1000000)}

\* The keys of the dicts of the model.
Keys == {"a", "b"}

\* The orders in which k distinct keys can have been inserted.
KeySeqs(k) == {ks \in [1..k -> Keys] : \A i, j \in 1..k : i # j => ks[i] # ks[j]}

RECURSIVE ValuesOfSize(_)
RECURSIVE ChildSeqs(_)

\* The sequences of values with `total` nodes together.
ChildSeqs(total) ==
    IF total = 0 THEN {<<>>}
    ELSE UNION {{<<v>> \o rest : v \in ValuesOfSize(i), rest \in ChildSeqs(total - i)} :
                i \in 1..total}

\* The values of exactly k nodes: a scalar, a list or a dict.
ValuesOfSize(k) ==
    (IF k = 1 THEN Leaves ELSE {})
    \cup {PyList(cs) : cs \in ChildSeqs(k - 1)}
    \cup UNION {{PyDict(ks, cs) : ks \in KeySeqs(Len(cs))} : cs \in ChildSeqs(k - 1)}

ValuesBySize == [k \in 1..MaxNodes |-> ValuesOfSize(k)]

InitPatternIdle ==
    /\ pattern = <<>>
    /\ value = <<>>
    /\ matched = "idle"

InitCompare ==
    /\ \E k1 \in 1..MaxNodes : \E k2 \in 1..MaxNodes :
          /\ k1 + k2 <= MaxTotal
          /\ val1 \in ValuesBySize[k1]
          /\ val2 \in ValuesBySize[k2]
    /\ ON_CI \in BOOLEAN
    /\ outcome = PartialCompareOutcome(None, <<>>, <<>>)
    /\ cstate = "ready"
    /\ InitPatternIdle /\ InitFreezeIdle /\ InitSkipIdle /\ InitCwdIdle

\* A test calls partial_compare(val1, val2).
Compare ==
    /\ cstate = "ready"
    /\ outcome' = partial_compare(val1, val2, 0, <<>>)
    /\ cstate' = "done"
    /\ UNCHANGED <<val1, val2, ON_CI, patternVars, freezeVars, skipVars, cwdVars>>

NextCompare == Compare

SpecCompare == InitCompare /\ [][NextCompare]_vars

\* ------------------------------------------------ claims on partial_compare
Done == cstate = "done"

\* The outcome of the comparison one level down, of actual item a against
\* expected item e.
Nested(a, e, step) == partial_compare(a, e, 1, <<step>>)

\* dict val1 without the keys val2 does not name.
OnlyKeysOf(d1, d2) ==
    LET keep == SelectSeq(d1.s, LAMBDA k : k \in Range(d2.s))
    IN  PyDict(keep, [i \in DOMAIN keep |-> GetItem(d1, keep[i])])

\* C1: of two dicts, the comparison succeeds exactly when every key of
\* expected is a key of actual whose value compares successfully; a key of
\* expected that actual lacks fails it whatever is expected under it, and
\* the keys only actual has change nothing.
C1_DictComparison ==
    (Done /\ val1.t = "dict" /\ val2.t = "dict") =>
        /\ Truthy(outcome) <=>
             \A i \in DOMAIN val2.s :
                 /\ val2.s[i] \in Range(val1.s)
                 /\ Truthy(Nested(GetItem(val1, val2.s[i]), val2.c[i], val2.s[i]))
        /\ (\E i \in DOMAIN val2.s : val2.s[i] \notin Range(val1.s))
               => outcome.error # None
        /\ outcome.error = partial_compare(OnlyKeysOf(val1, val2), val2, 0, <<>>).error

\* A dict holding a key that expected does not name passed.
C1_Witness ==
    /\ Done /\ val1.t = "dict" /\ val2.t = "dict"
    /\ Truthy(outcome)
    /\ val2.s # <<>>
    /\ Range(val1.s) \ Range(val2.s) # {}

\* C2: of two lists, a shorter actual fails; otherwise the comparison
\* succeeds exactly when the items at the positions of expected compare
\* successfully, and the items of actual past them change nothing.
C2_ListComparison ==
    (Done /\ val1.t = "list" /\ val2.t = "list") =>
        IF Len(val1.c) < Len(val2.c)
        THEN outcome.error # None
        ELSE /\ Truthy(outcome) <=>
                  \A i \in DOMAIN val2.c :
                      Truthy(Nested(val1.c[i], val2.c[i], ToString(i - 1)))
             /\ outcome.error =
                  partial_compare(PyList(SubSeq(val1.c, 1, Len(val2.c))),
                                  val2, 0, <<>>).error

\* A longer actual list passed although its last item would not have
\* compared equal to anything expected.
C2_Witness ==
    /\ Done /\ val1.t = "list" /\ val2.t = "list"
    /\ Len(val1.c) > Len(val2.c) /\ Len(val2.c) > 0
    /\ Truthy(outcome)

\* A dict lacking a key under which Ellipsis is expected was refused.
C1_WitnessMissing ==
    /\ Done /\ val1.t = "dict" /\ val2.t = "dict"
    /\ \E i \in DOMAIN val2.s :
           val2.s[i] \notin Range(val1.s) /\ val2.c[i] = Ellipsis
    /\ outcome.error # None

\* A shorter actual list whose items all match was refused.
C2_WitnessShort ==
    /\ Done /\ val1.t = "list" /\ val2.t = "list"
    /\ Len(val1.c) < Len(val2.c) /\ Len(val1.c) > 0
    /\ \A i \in DOMAIN val1.c : Truthy(Nested(val1.c[i], val2.c[i], ToString(i - 1)))
    /\ outcome.error # None

\* The value at a place of v: a path of dict keys and list positions.
RECURSIVE At(_, _)
At(v, path) ==
    IF path = <<>> THEN v
    ELSE At(IF v.t = "dict" THEN GetItem(v, Head(path))
            ELSE v.c[CHOOSE i \in DOMAIN v.c : ToString(i - 1) = Head(path)],
            Tail(path))

\* The i-th call of partial_compare of the comparison made: its place and
\* the two values it was given.
CallMade(i) ==
    [path |-> outcome.calls[i],
     actual |-> At(val1, outcome.calls[i]),
     expected |-> At(val2, outcome.calls[i])]

\* C3 as stated: whenever a call of partial_compare, outermost or nested, is
\* given values of different types, the comparison ends in a mismatch.
C3_TypeMismatchAlwaysFails ==
    Done => \A i \in DOMAIN outcome.calls :
                CallMade(i).actual.t # CallMade(i).expected.t
                    => outcome.error # None

\* C3, amended: whenever a call of partial_compare, outermost or nested, is
\* given values of different types and the expected one is not Ellipsis,
\* the comparison ends there, in a mismatch naming the two types.
C3_TypeMismatchFailsUnlessEllipsis ==
    Done => \A i \in DOMAIN outcome.calls :
                LET call == CallMade(i) IN
                (call.actual.t # call.expected.t /\ call.expected # Ellipsis)
                    => /\ outcome.error =
                            <<"Different types", call.actual.t, call.expected.t>>
                       /\ i = Len(outcome.calls)

\* A nested call met the int 1 where the float 1.0 or the str "1" was
\* expected.
C3_Witness ==
    /\ Done
    /\ Len(outcome.calls) > 1
    /\ LET call == CallMade(Len(outcome.calls)) IN
        /\ call.actual = PyInt(1)
        /\ call.expected \in {PyStr(<<"1">>), PyFloat(1000000)}
    /\ outcome.error # None

\* C4: a call of partial_compare, outermost or nested, whose expected value
\* is Ellipsis succeeds whatever the actual value is: it is never the
\* mismatch the comparison reports, and the comparison succeeds when it was
\* the outermost call.
C4_EllipsisAlwaysMatches ==
    Done =>
        /\ \A i \in DOMAIN outcome.calls :
               LET call == CallMade(i) IN
               call.expected = Ellipsis =>
                   /\ Truthy(partial_compare(call.actual, call.expected,
                                             Len(call.path), call.path))
                   /\ outcome.error # <<"Different types", call.actual.t, "ellipsis">>
        /\ val2 = Ellipsis => outcome.error = None

\* A nested Ellipsis was compared against a value of another type, and the
\* comparison succeeded.
C4_Witness ==
    /\ Done
    /\ Truthy(outcome)
    /\ \E i \in DOMAIN outcome.calls :
           /\ i > 1
           /\ CallMade(i).expected = Ellipsis
           /\ CallMade(i).actual.t \in {"list", "dict", "int"}

\* What a comparison that did not stop at a mismatch would meet, in the
\* order of the traversal (depth first, the keys of the expected dict in
\* their order, the list positions ascending): the pairs compared and the
\* mismatches found, each with its place.
Visit(path) == [kind |-> "compare", path |-> path, error |-> None]
Mismatch(path, err) == [kind |-> "mismatch", path |-> path, error |-> err]

RECURSIVE Traversal(_, _, _)
RECURSIVE TraverseDict(_, _, _, _)
RECURSIVE TraverseList(_, _, _, _)

TraverseDict(d1, d2, path, i) ==
    IF i > Len(d2.s) THEN <<>>
    ELSE (IF d2.s[i] \notin Range(d1.s)
          THEN <<Mismatch(path, <<"Key", d2.s[i],
                                  "is in second dict but not in first!">>)>>
          ELSE Traversal(GetItem(d1, d2.s[i]), d2.c[i], Append(path, d2.s[i])))
         \o TraverseDict(d1, d2, path, i + 1)

TraverseList(l1, l2, path, i) ==
    IF i > Min(Len(l1.c), Len(l2.c)) THEN <<>>
    ELSE Traversal(l1.c[i], l2.c[i], Append(path, ToString(i - 1)))
         \o TraverseList(l1, l2, path, i + 1)

Traversal(a, e, path) ==
    <<Visit(path)>> \o
    (IF e = Ellipsis THEN <<>>
     ELSE IF a.t # e.t
     THEN <<Mismatch(path, <<"Different types", a.t, e.t>>)>>
     ELSE IF e.t = "dict" THEN TraverseDict(a, e, path, 1)
     ELSE IF e.t = "list"
     THEN (IF Len(a.c) < Len(e.c)
           THEN <<Mismatch(path, <<"Second list is longer than first list">>)>>
           ELSE <<>>)
          \o TraverseList(a, e, path, 1)
     ELSE LET err == (CASE e.t = "float" -> partial_compare_float(a, e, 0)
                        [] e.t = "str" -> partial_compare_str(a, e, 0)
                        [] OTHER -> partial_compare_eq(a, e, 0)).error
          IN  IF err = None THEN <<>> ELSE <<Mismatch(path, err)>>)

MismatchesOf(events) == {i \in DOMAIN events : events[i].kind = "mismatch"}
FirstOf(S) == CHOOSE i \in S : \A j \in S : i <= j
PathsCompared(events) ==
    LET visits == SelectSeq(events, LAMBDA ev : ev.kind = "compare")
    IN  [i \in DOMAIN visits |-> visits[i].path]

\* C6: the outcome describes one mismatch, the first of the traversal, and
\* nothing is compared after it: the calls made are those of the traversal
\* up to that mismatch (all of them when there is none, and then the error
\* is None); the outcome is false exactly when it holds a description.
C6_FirstMismatchOnly ==
    Done =>
        LET events == Traversal(val1, val2, <<>>)
            found  == MismatchesOf(events)
            upto   == IF found = {} THEN Len(events) ELSE FirstOf(found)
        IN  /\ outcome.error = (IF found = {} THEN None ELSE events[upto].error)
            /\ outcome.calls = PathsCompared(SubSeq(events, 1, upto))
            /\ Truthy(outcome) <=> outcome.error = None
            /\ OutcomeStr(outcome) = "false" <=> outcome.error # None

\* The values differ in at least two places, and pairs that lie after the
\* first of them were never compared.
C6_Witness ==
    /\ Done
    /\ LET events == Traversal(val1, val2, <<>>)
           found  == MismatchesOf(events)
       IN  /\ Cardinality(found) >= 2
           /\ Len(outcome.calls) < Len(PathsCompared(events))
           /\ outcome.error = events[FirstOf(found)].error
    /\ ~Truthy(outcome)

\* ------------------------------------------------- GitHub Actions groups
Count(lines, line) == Cardinality({i \in DOMAIN lines : lines[i] = line})

\* C10: on CI the outermost call prints one '::group::Comparison' line and,
\* however it returns, one '::endgroup::' line, the last line printed; off
\* CI it prints neither, and no assertion of the group helpers fails.
C10_GroupMarkersBalanced ==
    Done =>
        /\ Count(outcome.out, <<"AssertionError">>) = 0
        /\ IF ON_CI
           THEN /\ Count(outcome.out, <<"::group::", "Comparison">>) = 1
                /\ outcome.out[1] = <<"::group::", "Comparison">>
                /\ Count(outcome.out, <<"::endgroup::">>) = 1
                /\ outcome.out[Len(outcome.out)] = <<"::endgroup::">>
           ELSE /\ Count(outcome.out, <<"::group::", "Comparison">>) = 0
                /\ Count(outcome.out, <<"::endgroup::">>) = 0

\* ---------------------------------------------------------- scripts/freeze.py
GitCommitId == <<"qutebrowser/git-commit-id", "git-commit-id">>

\* get_egl_path(): None off Windows, the DLL of the interpreter's word size
\* on Windows, a ValueError for any other architecture.
get_egl_path(plat, arch) ==
    IF plat # "win32" THEN "None"
    ELSE IF arch = "32bit" THEN "C:\\Python33_x32\\Lib\\site-packages\\PyQt5\\libEGL.dll"
    ELSE IF arch = "64bit" THEN "C:\\Python33\\Lib\\site-packages\\PyQt5\\libEGL.dll"
    ELSE "ValueError"

InitFreeze ==
    /\ fpc = "basedir"
    /\ has_file \in BOOLEAN
    /\ BASEDIR = "unset"
    /\ sys_platform \in {"linux", "win32"}
    /\ bits \in {"32bit", "64bit", "ELF"}
    /\ include_files = <<>>
    /\ git_file \in BOOLEAN
    /\ raised = "None"
    /\ cleaned = FALSE
    /\ InitCompareIdle /\ InitPatternIdle /\ InitSkipIdle /\ InitCwdIdle

\* BASEDIR is the directory above the script's, or None when __file__ is
\* not defined (a NameError).
ComputeBasedir ==
    /\ fpc = "basedir"
    /\ BASEDIR' = IF has_file THEN "scripts/.." ELSE "None"
    /\ include_files' = <<<<"qutebrowser/html", "html">>, GitCommitId>>
    /\ fpc' = "egl"
    /\ UNCHANGED <<has_file, sys_platform, bits, git_file, raised, cleaned>>
    /\ UNCHANGED <<compareVars, patternVars, skipVars, cwdVars>>

\* egl_path = get_egl_path(), added to include_files when there is one; its
\* ValueError ends the script before the try statement.
AddEglPath ==
    /\ fpc = "egl"
    /\ LET egl_path == get_egl_path(sys_platform, bits) IN
        IF egl_path = "ValueError"
        THEN /\ raised' = "ValueError"
             /\ fpc' = "done"
             /\ UNCHANGED include_files
        ELSE /\ include_files' = IF egl_path # "None"
                                 THEN Append(include_files, <<egl_path, "libEGL.dll">>)
                                 ELSE include_files
             /\ fpc' = "write_git_file"
             /\ UNCHANGED raised
    /\ UNCHANGED <<has_file, BASEDIR, sys_platform, bits, git_file, cleaned>>
    /\ UNCHANGED <<compareVars, patternVars, skipVars, cwdVars>>

\* try: write_git_file() -- it writes the file and returns, or raises, with
\* the file written or not.
WriteGitFile ==
    /\ fpc = "write_git_file"
    /\ \/ /\ git_file' = TRUE
          /\ fpc' = "setup"
          /\ UNCHANGED raised
       \/ /\ git_file' \in {git_file, TRUE}
          /\ raised' = "write_git_file"
          /\ fpc' = "finally"
    /\ UNCHANGED <<has_file, BASEDIR, sys_platform, bits, include_files, cleaned>>
    /\ UNCHANGED <<compareVars, patternVars, skipVars, cwdVars>>

\* A faulty variant: the cleanup follows setup() instead of standing in a finally
\* block, so that an exception of setup() passes it by.
Setup_cleanup_not_in_finally ==
    /\ fpc = "setup"
    /\ \/ /\ fpc' = "finally"
          /\ UNCHANGED raised
       \/ /\ raised' = "setup"
          /\ fpc' = "done"
    /\ UNCHANGED <<has_file, BASEDIR, sys_platform, bits, include_files,
                   git_file, cleaned>>
    /\ UNCHANGED <<compareVars, patternVars, skipVars, cwdVars>>

\* setup(...) returns or raises; either way the finally block is next.
Setup ==
    /\ fpc = "setup"
    /\ \/ UNCHANGED raised
       \/ raised' = "setup"
    /\ fpc' = "finally"
    /\ UNCHANGED <<has_file, BASEDIR, sys_platform, bits, include_files,
                   git_file, cleaned>>
    /\ UNCHANGED <<compareVars, patternVars, skipVars, cwdVars>>

\* finally: with a BASEDIR, the file is removed if it exists; the exception
\* of the try block, if any, goes on.
Cleanup ==
    /\ fpc = "finally"
    /\ git_file' = IF BASEDIR # "None" /\ git_file THEN FALSE ELSE git_file
    /\ cleaned' = TRUE
    /\ fpc' = "done"
    /\ UNCHANGED <<has_file, BASEDIR, sys_platform, bits, include_files, raised>>
    /\ UNCHANGED <<compareVars, patternVars, skipVars, cwdVars>>

NextFreeze ==
    \/ ComputeBasedir
    \/ AddEglPath
    \/ WriteGitFile
    \/ Setup
    \/ Cleanup

SpecFreeze == InitFreeze /\ [][NextFreeze]_vars

\* The script has ended after having entered its try statement.
TryEnded == fpc = "done" /\ raised # "ValueError"

\* C7 as stated: whether write_git_file() and setup() return or raise, the
\* cleanup has run when the script ends, the file is gone, and a failure of
\* the try block still leaves the script.
C7_CleanupAlwaysRemoves ==
    TryEnded => cleaned /\ ~git_file

\* C7, amended: whether write_git_file() and setup() return or raise, the
\* finally block has run when the script ends and a failure of the try
\* block still leaves the script; the file is gone when BASEDIR is not None,
\* and is left as the try block left it when BASEDIR is None.
C7_CleanupRemovesWithBasedir ==
    /\ [](TryEnded => /\ cleaned
                      /\ BASEDIR # "None" => ~git_file
                      /\ raised = "None" => git_file = (BASEDIR = "None"))
    /\ [][fpc = "finally" => (fpc' = "done" /\ raised' = raised)]_vars
    /\ [][(fpc \in {"write_git_file", "setup"} /\ raised' # "None")
              => fpc' = "finally"]_vars

\* setup() raised, the finally block removed the file that write_git_file()
\* had written, and the exception is leaving the script.
C7_Witness ==
    /\ fpc = "done"
    /\ raised = "setup"
    /\ cleaned
    /\ BASEDIR # "None"
    /\ ~git_file

\* --------------------------------------------------------- qt_module_skip
\* The modules qutebrowser.qt may offer.
QtModules == {"QtWebEngine", "QtWebKit", "QtGui"}

\* What an attribute of qutebrowser.qt can be: a module, None (the import
\* failed), or not there at all.
QtAttrs == {"module", "None", "absent"}

\* The reasons a caller passes: none, an empty one, and two texts.
Reasons == {None, <<"">>, <<"needs QtWebEngine">>, <<"no WebKit here">>}

\* bool(text) of an Optional[str]
Falsy(text) == text = None \/ text = <<"">>

\* A faulty variant: the caller's reason is dropped.
qt_module_skip_default_reason(mod, why) ==
    IF qt[mod] = "absent" THEN [how |-> "AttributeError", with |-> <<mod>>]
    ELSE IF qt[mod] = "None"
    THEN [how |-> "skipped",
          with |-> <<"Couldn't import", mod, "from qutebrowser.qt">>]
    ELSE [how |-> "returned", with |-> <<qt[mod], mod>>]

\* qt_module_skip(modname, reason): how the call ends, and with what (the
\* reason of the skip, or the module returned).
qt_module_skip(mod, why) ==
    IF qt[mod] = "absent" THEN [how |-> "AttributeError", with |-> <<mod>>]
    ELSE IF qt[mod] = "None"
    THEN [how |-> "skipped",
          with |-> IF Falsy(why)
                   THEN <<"Couldn't import", mod, "from qutebrowser.qt">>
                   ELSE why]
    ELSE [how |-> "returned", with |-> <<qt[mod], mod>>]

InitSkip ==
    /\ qt \in [QtModules -> QtAttrs]
    /\ modname \in QtModules
    /\ reason \in Reasons
    /\ skip_end = [how |-> "pending", with |-> <<>>]
    /\ InitCompareIdle /\ InitPatternIdle /\ InitFreezeIdle /\ InitCwdIdle

\* A test module calls qt_module_skip(modname, reason).
QtModuleSkip ==
    /\ skip_end.how = "pending"
    /\ skip_end' = qt_module_skip(modname, reason)
    /\ UNCHANGED <<qt, modname, reason>>
    /\ UNCHANGED <<compareVars, patternVars, freezeVars, cwdVars>>

NextSkip == QtModuleSkip

SpecSkip == InitSkip /\ [][NextSkip]_vars

DefaultReason == <<"Couldn't import", modname, "from qutebrowser.qt">>

\* C8 as stated: with the attribute None the call ends in a skip whose
\* reason is the caller's when one was given and the default text naming
\* modname otherwise; with another attribute it returns that module.
C8_SkipWithGivenReason ==
    (skip_end.how # "pending" /\ qt[modname] # "absent") =>
        IF qt[modname] = "None"
        THEN /\ skip_end.how = "skipped"
             /\ skip_end.with = IF reason # None THEN reason ELSE DefaultReason
        ELSE skip_end = [how |-> "returned", with |-> <<qt[modname], modname>>]

\* C8, amended: with the attribute None the call ends in a skip whose
\* reason is the caller's when a non-empty one was given and the default
\* text naming modname when none or an empty one was; the reason is never
\* empty; with another attribute the call returns that module.
C8_SkipWithNonEmptyReason ==
    (skip_end.how # "pending" /\ qt[modname] # "absent") =>
        IF qt[modname] = "None"
        THEN /\ skip_end.how = "skipped"
             /\ skip_end.with = IF reason \notin {None, <<"">>}
                                THEN reason ELSE DefaultReason
             /\ ~Falsy(skip_end.with)
        ELSE skip_end = [how |-> "returned", with |-> <<qt[modname], modname>>]

\* A module that failed to import was asked for with a reason, and the
\* call ended in a skip with that reason.
C8_Witness ==
    /\ skip_end.how = "skipped"
    /\ qt[modname] = "None"
    /\ reason = <<"needs QtWebEngine">>
    /\ skip_end.with = reason

\* -------------------------------------------------------------- change_cwd
\* with-blocks of change_cwd open inside one another.
MaxNesting == 2

\* The directories that exist, as absolute paths.
Dirs == {<<"tmp">>, <<"tmp", "data">>, <<"home">>}

\* What a caller passes as path: a directory, absolute or relative to the
\* working directory, that may not exist.
Paths == Dirs \cup {<<"tmp", "gone">>} \cup {<<".", "data">>, <<".", "gone">>}

\* The directory os.chdir(path) makes current when the working directory
\* is dir.
Resolve(dir, path) ==
    IF path # <<>> /\ Head(path) = "." THEN dir \o Tail(path) ELSE path

InitCwd ==
    /\ cwd \in Dirs
    /\ frames = <<>>
    /\ entered_from = <<>>
    /\ raising = FALSE
    /\ left = [how |-> "none", was |-> <<>>]
    /\ InitCompareIdle /\ InitPatternIdle /\ InitFreezeIdle /\ InitSkipIdle

\* with change_cwd(path): old_cwd is read, then os.chdir(path) either fails,
\* and its error leaves the context manager before the try statement, or
\* succeeds and the body starts.
Enter ==
    /\ ~raising
    /\ Len(frames) < MaxNesting
    /\ \E path \in Paths :
          LET old_cwd == cwd IN
          IF Resolve(cwd, path) \in Dirs
          THEN /\ cwd' = Resolve(cwd, path)
               /\ frames' = <<old_cwd>> \o frames
               /\ entered_from' = <<cwd>> \o entered_from
               /\ left' = [how |-> "none", was |-> <<>>]
               /\ UNCHANGED raising
          ELSE /\ raising' = TRUE
               /\ left' = [how |-> "enter failed", was |-> cwd]
               /\ UNCHANGED <<cwd, frames, entered_from>>
    /\ UNCHANGED <<compareVars, patternVars, freezeVars, skipVars>>

\* The body of the innermost with-block changes the working directory.
BodyChdir ==
    /\ ~raising
    /\ frames # <<>>
    /\ \E dir \in Dirs : cwd' = dir
    /\ left' = [how |-> "none", was |-> <<>>]
    /\ UNCHANGED <<frames, entered_from, raising>>
    /\ UNCHANGED <<compareVars, patternVars, freezeVars, skipVars>>

\* The body of the innermost with-block raises.
BodyRaise ==
    /\ ~raising
    /\ frames # <<>>
    /\ raising' = TRUE
    /\ left' = [how |-> "none", was |-> <<>>]
    /\ UNCHANGED <<cwd, frames, entered_from>>
    /\ UNCHANGED <<compareVars, patternVars, freezeVars, skipVars>>

\* The body ends: the generator resumes after its yield and runs finally.
ExitNormally ==
    /\ ~raising
    /\ frames # <<>>
    /\ cwd' = Head(frames)
    /\ frames' = Tail(frames)
    /\ entered_from' = Tail(entered_from)
    /\ left' = [how |-> "normally", was |-> Head(entered_from)]
    /\ UNCHANGED raising
    /\ UNCHANGED <<compareVars, patternVars, freezeVars, skipVars>>

\* A faulty variant: os.chdir(old_cwd) follows the yield without a try/finally, so an
\* exception thrown into the generator passes it by.
ExitByException_without_finally ==
    /\ raising
    /\ frames # <<>>
    /\ frames' = Tail(frames)
    /\ entered_from' = Tail(entered_from)
    /\ left' = [how |-> "by exception", was |-> Head(entered_from)]
    /\ UNCHANGED <<cwd, raising>>
    /\ UNCHANGED <<compareVars, patternVars, freezeVars, skipVars>>

\* An exception leaves the body: it is thrown into the generator at its
\* yield, finally runs, and the exception goes on.
ExitByException ==
    /\ raising
    /\ frames # <<>>
    /\ cwd' = Head(frames)
    /\ frames' = Tail(frames)
    /\ entered_from' = Tail(entered_from)
    /\ left' = [how |-> "by exception", was |-> Head(entered_from)]
    /\ UNCHANGED raising
    /\ UNCHANGED <<compareVars, patternVars, freezeVars, skipVars>>

\* The caller catches the exception, in a with-block around or outside all.
Catch ==
    /\ raising
    /\ raising' = FALSE
    /\ left' = [how |-> "none", was |-> <<>>]
    /\ UNCHANGED <<cwd, frames, entered_from>>
    /\ UNCHANGED <<compareVars, patternVars, freezeVars, skipVars>>

NextCwd ==
    \/ Enter
    \/ BodyChdir
    \/ BodyRaise
    \/ ExitNormally
    \/ ExitByException
    \/ Catch

SpecCwd == InitCwd /\ [][NextCwd]_vars

C9_WitnessEnterFailed ==
    /\ left.how = "enter failed"
    /\ frames # <<>>
    /\ cwd = left.was

====
